---- MODULE Spec2Model ----
(***************************************************************************)
(* TestFlow execution engine: the Celery tasks of                          *)
(* app/tasks/execution_tasks.py (execute_test_suite, cancel_execution,     *)
(* CallbackTask.on_failure) working on the Record Store (PostgreSQL rows   *)
(* test_executions / test_case_results), the Progress Cache (Redis) and    *)
(* the Execution Log Store (MongoDB), with the API request that creates    *)
(* an execution and enqueues its job.                                      *)
(*                                                                         *)
(* Time stamps are abstracted to "unset" (0) / "set" (1).  A SQLAlchemy    *)
(* session is modelled by the job's local copy of the row (row), the set   *)
(* of attributes it has changed since its last commit (dirty) and the      *)
(* result rows it has flushed but not committed (pend): a commit writes    *)
(* the dirty columns and the flushed rows, a rollback drops both.          *)
(***************************************************************************)
EXTENDS Integers, Sequences, FiniteSets, TLC

\* ---------------------------------------------------------------- bounds
MaxExecs      == 1      \* executions created through the API
MaxCases      == 2      \* test cases in the catalogue
MaxDeliveries == 2      \* deliveries of execute_test_suite messages (at-least-once)
MaxCancels    == 1      \* cancel requests
MaxMembers    == 2      \* rows of suite_test_cases
MaxCount      == 6      \* passed / failed results of an execution, for pass_rate
MaxSweepExecs == 2      \* executions in the store the retention sweep runs on
MaxSweepRows  == 1      \* result rows of each of them

ExecIds     == 1..MaxExecs
TestCaseIds == 1..MaxCases
JobIds      == 1..MaxDeliveries
CancelIds   == 1..MaxCancels
\* The suite an execution may target, and one more suite a test case may
\* also belong to.
TargetSuite == 1
OtherSuite  == 2
SuiteIds    == {TargetSuite, OtherSuite}
NoSuite     == 0

\* ------------------------------------------------------------ enumerations
\* ExecutionStatus
PENDING   == "pending"
QUEUED    == "queued"
RUNNING   == "running"
PAUSED    == "paused"
COMPLETED == "completed"
FAILED    == "failed"
CANCELLED == "cancelled"
TIMEOUT   == "timeout"
ExecutionStatus == {PENDING, QUEUED, RUNNING, PAUSED, COMPLETED, FAILED, CANCELLED, TIMEOUT}

\* TestResultStatus (FAILED is shared with ExecutionStatus: same string value)
R_PASSED  == "passed"
R_FAILED  == "failed"
R_SKIPPED == "skipped"
R_BLOCKED == "blocked"
R_ERROR   == "error"
R_PENDING == "pending"
TestResultStatus == {R_PASSED, R_FAILED, R_SKIPPED, R_BLOCKED, R_ERROR, R_PENDING}
TerminalResult   == TestResultStatus \ {R_PENDING}

\* TestCaseStatus values the catalogue uses
TC_ACTIVE == "active"
TC_DRAFT  == "draft"

NoRow  == [status |-> "norow"]
NoSnap == [status |-> "nosnap"]
NoErr  == "none"

VARIABLES
    tcStatus,    \* test_cases.status, per test case
    tcSuites,    \* suite_test_cases: the suites each test case belongs to
    dbExec,      \* committed test_executions rows, per execution id
    dbResults,   \* committed test_case_results rows, in commit order
    cache,       \* Redis: the Progress Snapshot per execution id
    logs,        \* MongoDB execution_logs documents, in insertion order
    msg,         \* broker: state of the execute_test_suite message per execution
    api,         \* create_execution request per execution id
    job,         \* execute_test_suite deliveries
    ndeliv,      \* deliveries made so far
    cjob,        \* cancel_execution jobs
    uow,         \* Unit-of-Work invocations so far, per execution id
    sweep,       \* the cleanup_old_results job
    poll,        \* what the last GET /executions/{id}/progress returned
    auth         \* the users table and the outcome of the last register call

vars == <<tcStatus, tcSuites, dbExec, dbResults, cache, logs, msg, api, job,
          ndeliv, cjob, uow, sweep, poll, auth>>

\* ------------------------------------------------------------------ helpers
RECURSIVE SeqSum(_)
SeqSum(s) == IF s = <<>> THEN 0 ELSE Head(s) + SeqSum(Tail(s))

RECURSIVE Repeat(_, _)
Repeat(x, n) == IF n = 0 THEN <<>> ELSE <<x>> \o Repeat(x, n - 1)

RECURSIVE FlatMapIds(_, _)
\* the concatenation of f[1], f[2], ..., f[n]
FlatMapIds(f, n) == IF n = 0 THEN <<>> ELSE FlatMapIds(f, n - 1) \o f[n]

CountStatus(rows, st) == Len(SelectSeq(rows, LAMBDA r : r.status = st))

\* ----------------------------------------------------------- record store
\* Columns of test_executions the engine reads or writes.  started_at,
\* completed_at and duration_seconds hold 0 (NULL) or 1 (a value).  old
\* stands for created_at: 0 within the retention window (a row just
\* created), 1 before the cutoff of the retention sweep.
NewExecution(suite) ==
    [status |-> QUEUED, suite |-> suite,
     total |-> 0, passed |-> 0, failed |-> 0, skipped |-> 0, blocked |-> 0,
     error |-> 0, started |-> 0, completed |-> 0, duration |-> 0,
     errmsg |-> NoErr, old |-> 0]

\* Columns whose new value is a fresh clock reading: an assignment always
\* changes them.
ClockColumns == {"started", "completed", "duration"}

\* Attribute assignments on the session's copy of the row: upd maps column
\* names to the values assigned.  The unit of work marks a column dirty when
\* the assigned value differs from the one the session holds.
SetAttrs(jr, upd) ==
    [jr EXCEPT
       !.row   = [f \in DOMAIN jr.row |->
                    IF f \in DOMAIN upd THEN upd[f] ELSE jr.row[f]],
       !.dirty = jr.dirty \cup
                 {f \in DOMAIN upd : upd[f] # jr.row[f] \/ f \in ClockColumns}]

\* The UPDATE a commit emits: the dirty columns only.
WriteRow(dbrow, row, dirty) ==
    [f \in DOMAIN dbrow |-> IF f \in dirty THEN row[f] ELSE dbrow[f]]

\* Variant of NewResult that creates the row with a terminal status.
NewResultPassed(e, tc) == [eid |-> e, tc |-> tc, status |-> R_PASSED, err |-> NoErr]

\* TestCaseResult as created by _execute_single_test.
NewResult(e, tc) == [eid |-> e, tc |-> tc, status |-> R_PENDING, err |-> NoErr]

ResultsOf(rows, e) == SelectSeq(rows, LAMBDA r : r.eid = e)

\* _get_test_cases_for_execution.  With a suite: TestCase JOIN suite_test_cases
\* JOIN test_suites, filtered by EXISTS(membership in the suite); the join
\* yields one row per suite membership of each selected test case, and
\* scalars().all() keeps every row.  Without a suite: the active test cases.
\* Rows are taken in id order.
SuiteTargets(suite) ==
    FlatMapIds([t \in TestCaseIds |->
                  IF suite \in tcSuites[t]
                  THEN Repeat(t, Cardinality(tcSuites[t]))
                  ELSE <<>>], MaxCases)

ProjectTargets ==
    FlatMapIds([t \in TestCaseIds |->
                  IF tcStatus[t] = TC_ACTIVE THEN <<t>> ELSE <<>>], MaxCases)

GetTestCases(row) ==
    IF row.suite # NoSuite THEN SuiteTargets(row.suite) ELSE ProjectTargets

\* _update_execution_summary: the counters recounted from the rows the
\* session sees for this execution.
SummaryCounts(rows) ==
    [passed  |-> CountStatus(rows, R_PASSED),
     failed  |-> CountStatus(rows, R_FAILED),
     skipped |-> CountStatus(rows, R_SKIPPED),
     blocked |-> CountStatus(rows, R_BLOCKED),
     error   |-> CountStatus(rows, R_ERROR)]

\* TestExecution.pass_rate, in hundredths of a percent:
\* round(passed / executed * 100, 2) * 100.
\* Variant of PassRate that takes every counted result as the denominator.
PassRateOfTotal(row) ==
    LET counted == row.passed + row.failed + row.skipped + row.blocked + row.error
    IN  IF counted = 0 THEN 0 ELSE (row.passed * 10000) \div counted

PassRate(row) ==
    LET executed == row.passed + row.failed
        q == (row.passed * 10000) \div executed
        r == (row.passed * 10000) % executed
    IN  IF executed = 0 THEN 0
        ELSE IF 2 * r > executed \/ (2 * r = executed /\ q % 2 = 1)
             THEN q + 1 ELSE q

\* ------------------------------------------------------------------ jobs
\* An execute_test_suite delivery.  seen and outs are history: the number
\* of committed result rows of the execution when the job started, and the
\* outcomes of the units of work it ran.
IdleJob ==
    [pc |-> "idle", eid |-> 0, row |-> NoRow, dirty |-> {}, cases |-> <<>>,
     idx |-> 0, pend |-> <<>>, results |-> <<>>, exc |-> NoErr, ret |-> "none",
     seen |-> 0, outs |-> <<>>]

\* A cancel_execution job.  k is history: the number of terminal results
\* the execute job of the execution had produced inside its loop when the
\* cancel was committed, -1 when no execute job was inside its loop.
IdleCancel == [pc |-> "idle", eid |-> 0, ret |-> "none", k |-> -1]

\* The users table before any registration.
NoUsers == [users |-> <<>>, email |-> 0, username |-> 0, ret |-> "none"]

\* No progress request has been answered yet.
NoPoll ==
    [http |-> 0, execution_id |-> 0, status |-> QUEUED, total |-> 0, completed |-> 0, passed |-> 0,
     failed |-> 0, percent |-> <<0, 1>>, elapsed |-> "0"]

\* The cleanup_old_results job; cleaned is the count it returns.
IdleSweep == [pc |-> "idle", cleaned |-> 0]

InFlight(j) == job[j].pc \notin {"idle", "done", "crashed"}

\* Session.commit of job record jr: the dirty columns and the flushed rows
\* reach the Record Store.
CommitExec(jr)    == [dbExec EXCEPT ![jr.eid] = WriteRow(@, jr.row, jr.dirty)]
CommitResults(jr) == dbResults \o jr.pend
Committed(jr)     == [jr EXCEPT !.dirty = {}, !.pend = <<>>]

\* Session.rollback: attribute changes and flushed rows are dropped.
RolledBack(jr)    == [jr EXCEPT !.dirty = {}, !.pend = <<>>]

\* ------------------------------------------------------------------- Init
\* An empty Record Store, cache and log store, no message in the broker.
\* The catalogue of test cases is what the CRUD services left there.  Each
\* test case is of one of three kinds: a draft in no suite, an active test
\* case in the target suite, an active test case in both suites.
TestCaseKinds ==
    {[status |-> TC_DRAFT,  suites |-> {}],
     [status |-> TC_ACTIVE, suites |-> {TargetSuite}],
     [status |-> TC_ACTIVE, suites |-> {TargetSuite, OtherSuite}]}

Memberships(f) == SeqSum([t \in TestCaseIds |-> Cardinality(f[t].suites)])

Init ==
    /\ \E f \in [TestCaseIds -> TestCaseKinds] :
          /\ Memberships(f) <= MaxMembers
          /\ tcStatus = [t \in TestCaseIds |-> f[t].status]
          /\ tcSuites = [t \in TestCaseIds |-> f[t].suites]
    /\ dbExec = [e \in ExecIds |-> NoRow]
    /\ dbResults = <<>>
    /\ cache = [e \in ExecIds |-> NoSnap]
    /\ logs = <<>>
    /\ msg = [e \in ExecIds |-> "none"]
    /\ api = [e \in ExecIds |-> [pc |-> "idle", suite |-> NoSuite]]
    /\ job = [j \in JobIds |-> IdleJob]
    /\ ndeliv = 0
    /\ cjob = [c \in CancelIds |-> IdleCancel]
    /\ uow = [e \in ExecIds |-> 0]
    /\ sweep = IdleSweep
    /\ poll = NoPoll
    /\ auth = NoUsers

\* ---------------------------------------------------- API: create_execution
\* Lines 49-70: the row is built with status QUEUED, flushed (INSERT inside
\* the request's transaction, invisible to other sessions) and the task is
\* enqueued with execute_test_suite.delay.
ApiCreateExecution(e, suite) ==
    /\ api[e].pc = "idle"
    /\ \A d \in ExecIds : d < e => api[d].pc # "idle"
    /\ api' = [api EXCEPT ![e] = [pc |-> "flushed", suite |-> suite]]
    /\ msg' = [msg EXCEPT ![e] = "queued"]
    /\ UNCHANGED <<tcStatus, tcSuites, dbExec, dbResults, cache, logs, job,
                   ndeliv, cjob, uow, sweep, poll, auth>>

\* Lines 72-75: the request's commit makes the row visible.
ApiCommit(e) ==
    /\ api[e].pc = "flushed"
    /\ api' = [api EXCEPT ![e].pc = "done"]
    /\ dbExec' = [dbExec EXCEPT ![e] = NewExecution(api[e].suite)]
    /\ UNCHANGED <<tcStatus, tcSuites, dbResults, cache, logs, msg, job,
                   ndeliv, cjob, uow, sweep, poll, auth>>

\* ------------------------------------------------- execute_test_suite job
JobUnchanged == UNCHANGED <<tcStatus, tcSuites, api, cjob, sweep, poll, auth>>

\* The task returns or its failure handling ends: the message is
\* acknowledged (task_acks_late).
Finish(j, jr, ret) ==
    /\ job' = [job EXCEPT ![j] = [IdleJob EXCEPT !.pc = "done", !.eid = jr.eid,
                                                 !.ret = ret]]
    /\ msg' = [msg EXCEPT ![jr.eid] = "acked"]

\* A worker takes the message of execution e from the queue (a first
\* delivery, or a redelivery after the worker of an earlier one was lost)
\* and runs lines 81-89: the row is not there, the job returns
\* {"success": False}.
\* Variant of ExecStartNotFound that raises instead of returning: the message
\* is not acknowledged and comes back.
ExecStartNotFoundRedelivered(e) ==
    /\ msg[e] = "queued"
    /\ ndeliv < MaxDeliveries
    /\ dbExec[e] = NoRow
    /\ ndeliv' = ndeliv + 1
    /\ job' = [job EXCEPT ![ndeliv + 1] = [IdleJob EXCEPT !.pc = "done", !.eid = e,
                                                          !.ret = "notfound"]]
    /\ UNCHANGED <<dbExec, dbResults, cache, logs, uow, msg>>
    /\ JobUnchanged

ExecStartNotFound(e) ==
    /\ msg[e] = "queued"
    /\ ndeliv < MaxDeliveries
    /\ dbExec[e] = NoRow
    /\ ndeliv' = ndeliv + 1
    /\ Finish(ndeliv + 1, [IdleJob EXCEPT !.eid = e], "notfound")
    /\ UNCHANGED <<dbExec, dbResults, cache, logs, uow>>
    /\ JobUnchanged

\* Lines 81-95: the row is loaded, set RUNNING with started_at, committed.
ExecStart(e) ==
    /\ msg[e] = "queued"
    /\ ndeliv < MaxDeliveries
    /\ dbExec[e] # NoRow
    /\ LET jr0 == [IdleJob EXCEPT !.eid = e, !.row = dbExec[e],
                                  !.seen = Len(ResultsOf(dbResults, e))]
           jr1 == SetAttrs(jr0, [status |-> RUNNING, started |-> 1])
       IN  /\ dbExec' = CommitExec(jr1)
           /\ job' = [job EXCEPT ![ndeliv + 1] =
                        [Committed(jr1) EXCEPT !.pc = "snapshot0"]]
    /\ ndeliv' = ndeliv + 1
    /\ msg' = [msg EXCEPT ![e] = "taken"]
    /\ UNCHANGED <<dbResults, cache, logs, uow>>
    /\ JobUnchanged

\* Lines 98-106: the initial Progress Snapshot is written.
ExecInitialSnapshot(j) ==
    /\ job[j].pc = "snapshot0"
    /\ cache' = [cache EXCEPT ![job[j].eid] =
                   [status |-> RUNNING, started_at |-> job[j].row.started,
                    progress |-> <<0, 1>>]]
    /\ job' = [job EXCEPT ![j].pc = "resolve"]
    /\ UNCHANGED <<dbExec, dbResults, logs, msg, ndeliv, uow>>
    /\ JobUnchanged

\* Lines 98-106 with the cache write raising (RedisCache.get_client raises
\* when the worker has no connection, or the command fails): the call is
\* before the try block, so the exception leaves the job through
\* get_db_context, which rolls the session back.
ExecInitialSnapshotFails(j) ==
    /\ job[j].pc = "snapshot0"
    /\ job' = [job EXCEPT ![j] =
                 [RolledBack(@) EXCEPT !.pc = "raised", !.exc = "cache"]]
    /\ UNCHANGED <<dbExec, dbResults, cache, logs, msg, ndeliv, uow>>
    /\ JobUnchanged

\* Lines 110-117: the target set is empty; the row is committed COMPLETED
\* with total_tests 0 and the job returns success.
\* Variant of ExecEmptyTargets that returns without marking the execution
\* COMPLETED.
ExecEmptyTargetsNotCompleted(j) ==
    /\ job[j].pc = "resolve"
    /\ GetTestCases(job[j].row) = <<>>
    /\ Finish(j, job[j], "success")
    /\ UNCHANGED <<dbExec, dbResults, cache, logs, ndeliv, uow>>
    /\ JobUnchanged

ExecEmptyTargets(j) ==
    /\ job[j].pc = "resolve"
    /\ GetTestCases(job[j].row) = <<>>
    /\ LET jr == SetAttrs(job[j], [status |-> COMPLETED, completed |-> 1,
                                   total |-> 0])
       IN  /\ dbExec' = CommitExec(jr)
           /\ dbResults' = CommitResults(jr)
           /\ Finish(j, Committed(jr), "success")
    /\ UNCHANGED <<cache, logs, ndeliv, uow>>
    /\ JobUnchanged

\* Lines 110-123: total_tests is set to the length of the target list and
\* committed; the loop starts.
ExecResolveTargets(j) ==
    /\ job[j].pc = "resolve"
    /\ GetTestCases(job[j].row) # <<>>
    /\ LET cases == GetTestCases(job[j].row)
           jr == SetAttrs(job[j], [total |-> Len(cases)])
       IN  /\ dbExec' = CommitExec(jr)
           /\ dbResults' = CommitResults(jr)
           /\ job' = [job EXCEPT ![j] =
                        [Committed(jr) EXCEPT !.pc = "create", !.cases = cases,
                                              !.idx = 0, !.results = <<>>]]
    /\ UNCHANGED <<cache, logs, msg, ndeliv, uow>>
    /\ JobUnchanged

\* _execute_single_test, lines 238-250: a PENDING result row for the
\* current test case is added to the session and flushed.
ExecCreateResult(j) ==
    /\ job[j].pc = "create"
    /\ LET r == NewResult(job[j].eid, job[j].cases[job[j].idx + 1])
       IN  job' = [job EXCEPT ![j].pend = Append(@, r), ![j].pc = "run"]
    /\ UNCHANGED <<dbExec, dbResults, cache, logs, msg, ndeliv, uow>>
    /\ JobUnchanged

\* Lines 249-250 with the flush raising (a Record Store write fails).  The
\* flush is outside the try of _execute_single_test, so the exception
\* reaches the handler of lines 180-184; the session's transaction was
\* rolled back by the failed flush, so the handler's commit raises as well
\* and the exception leaves through get_db_context (rollback, re-raise).
\* Nothing of this attempt is committed.
ExecCreateResultFails(j) ==
    /\ job[j].pc = "create"
    /\ job' = [job EXCEPT ![j] =
                 [RolledBack(@) EXCEPT !.pc = "raised", !.exc = "db"]]
    /\ UNCHANGED <<dbExec, dbResults, cache, logs, msg, ndeliv, uow>>
    /\ JobUnchanged

\* The outcome of the simulated Unit-of-Work (lines 252-287): the test
\* passes, fails its assertion, or the try block raises and the except
\* clause records ERROR with the message.
RunnerOutcomes == {"pass", "fail", "raise"}

\* Variant of Outcome that records a raising unit of work as FAILED.
OutcomeRaiseAsFailed(r, o) ==
    IF o = "pass" THEN [r EXCEPT !.status = R_PASSED]
    ELSE [r EXCEPT !.status = R_FAILED, !.err = "assertion"]

Outcome(r, o) ==
    IF o = "pass" THEN [r EXCEPT !.status = R_PASSED]
    ELSE IF o = "fail" THEN [r EXCEPT !.status = R_FAILED, !.err = "assertion"]
    ELSE [r EXCEPT !.status = R_ERROR, !.err = "exception"]

\* Lines 252-287: the unit of work runs, the result row gets its terminal
\* status and is flushed; line 130 appends it to results.
\* Variant of ExecRunTest whose session commits at every flush.
ExecRunTestCommits(j, o) ==
    /\ job[j].pc = "run"
    /\ LET n == Len(job[j].pend)
           r == Outcome(job[j].pend[n], o)
       IN  /\ dbResults' = dbResults \o [job[j].pend EXCEPT ![n] = r]
           /\ job' = [job EXCEPT ![j].pend = <<>>,
                                 ![j].results = Append(@, r),
                                 ![j].outs = Append(@, o),
                                 ![j].pc = "progress"]
    /\ uow' = [uow EXCEPT ![job[j].eid] = @ + 1]
    /\ UNCHANGED <<dbExec, cache, logs, msg, ndeliv>>
    /\ JobUnchanged

ExecRunTest(j, o) ==
    /\ job[j].pc = "run"
    /\ LET n == Len(job[j].pend)
           r == Outcome(job[j].pend[n], o)
       IN  job' = [job EXCEPT ![j].pend = [@ EXCEPT ![n] = r],
                              ![j].results = Append(@, r),
                              ![j].outs = Append(@, o),
                              ![j].pc = "progress"]
    /\ uow' = [uow EXCEPT ![job[j].eid] = @ + 1]
    /\ UNCHANGED <<dbExec, dbResults, cache, logs, msg, ndeliv>>
    /\ JobUnchanged

\* After line 143: the next test case, or the end of the loop.
NextInLoop(jr) ==
    IF jr.idx + 1 < Len(jr.cases)
    THEN [jr EXCEPT !.idx = @ + 1, !.pc = "create"]
    ELSE [jr EXCEPT !.idx = @ + 1, !.pc = "summary"]

\* Lines 132-143: the Progress Snapshot after test case idx.
ExecUpdateProgress(j) ==
    /\ job[j].pc = "progress"
    /\ cache' = [cache EXCEPT ![job[j].eid] =
                   [status |-> RUNNING,
                    progress |-> <<(job[j].idx + 1) * 100, Len(job[j].cases)>>,
                    completed |-> job[j].idx + 1,
                    total |-> Len(job[j].cases)]]
    /\ job' = [job EXCEPT ![j] = NextInLoop(@)]
    /\ UNCHANGED <<dbExec, dbResults, logs, msg, ndeliv, uow>>
    /\ JobUnchanged

\* Lines 134-143 with the cache write raising: the exception is caught by
\* the handler of line 180.
ExecUpdateProgressFails(j) ==
    /\ job[j].pc = "progress"
    /\ job' = [job EXCEPT ![j].pc = "handler", ![j].exc = "cache"]
    /\ UNCHANGED <<dbExec, dbResults, cache, logs, msg, ndeliv, uow>>
    /\ JobUnchanged

\* Variant of ExecComplete that leaves the COMPLETED row uncommitted until the
\* session closes.
ExecCompleteUncommitted(j) ==
    /\ job[j].pc = "summary"
    /\ LET seen == ResultsOf(dbResults, job[j].eid) \o job[j].pend
           jr == SetAttrs(SetAttrs(job[j], SummaryCounts(seen)),
                          [status |-> COMPLETED, completed |-> 1,
                           duration |-> 1])
       IN  job' = [job EXCEPT ![j] = [jr EXCEPT !.pc = "snapshotC"]]
    /\ UNCHANGED <<dbExec, dbResults, cache, logs, msg, ndeliv, uow>>
    /\ JobUnchanged

\* Lines 146-154: _update_execution_summary recounts the result rows the
\* session sees for the execution (committed ones and its own flushed
\* ones); the row is set COMPLETED with completed_at and duration, and the
\* commit writes it together with the flushed result rows.
ExecComplete(j) ==
    /\ job[j].pc = "summary"
    /\ LET seen == ResultsOf(dbResults, job[j].eid) \o job[j].pend
           jr == SetAttrs(SetAttrs(job[j], SummaryCounts(seen)),
                          [status |-> COMPLETED, completed |-> 1,
                           duration |-> 1])
       IN  /\ dbExec' = CommitExec(jr)
           /\ dbResults' = CommitResults(jr)
           /\ job' = [job EXCEPT ![j] =
                        [Committed(jr) EXCEPT !.pc = "snapshotC"]]
    /\ UNCHANGED <<cache, logs, msg, ndeliv, uow>>
    /\ JobUnchanged

\* Lines 157-166: the COMPLETED Progress Snapshot.
ExecFinalSnapshot(j) ==
    /\ job[j].pc = "snapshotC"
    /\ cache' = [cache EXCEPT ![job[j].eid] =
                   [status |-> COMPLETED, completed_at |-> job[j].row.completed,
                    duration |-> job[j].row.duration,
                    pass_rate |-> PassRate(job[j].row)]]
    /\ job' = [job EXCEPT ![j].pc = "log"]
    /\ UNCHANGED <<dbExec, dbResults, logs, msg, ndeliv, uow>>
    /\ JobUnchanged

\* Lines 157-166 with the cache write raising: the exception is caught by
\* the handler of line 180, after the COMPLETED commit.
ExecFinalSnapshotFails(j) ==
    /\ job[j].pc = "snapshotC"
    /\ job' = [job EXCEPT ![j].pc = "handler", ![j].exc = "cache"]
    /\ UNCHANGED <<dbExec, dbResults, cache, logs, msg, ndeliv, uow>>
    /\ JobUnchanged

\* _store_execution_logs, lines 318-339: one document with the results of
\* this run; then the job returns success (lines 171-178).
LogEntry(jr) ==
    [execution_id |-> jr.eid,
     results_count |-> Len(jr.results),
     results |-> [i \in 1..Len(jr.results) |->
                    [test_case_id |-> jr.results[i].tc,
                     status |-> jr.results[i].status,
                     error |-> jr.results[i].err]]]

ExecStoreLogs(j) ==
    /\ job[j].pc = "log"
    /\ logs' = Append(logs, LogEntry(job[j]))
    /\ Finish(j, job[j], "success")
    /\ UNCHANGED <<dbExec, dbResults, cache, ndeliv, uow>>
    /\ JobUnchanged

\* Lines 320-342 with MongoDB raising: the except clause of
\* _store_execution_logs prints and returns; the job returns success.
\* Variant of ExecStoreLogsFails without the try/except of
\* _store_execution_logs: the exception reaches the handler of line 180.
ExecStoreLogsFailsRaises(j) ==
    /\ job[j].pc = "log"
    /\ job' = [job EXCEPT ![j].pc = "handler", ![j].exc = "log"]
    /\ UNCHANGED <<dbExec, dbResults, cache, logs, msg, ndeliv, uow>>
    /\ JobUnchanged

ExecStoreLogsFails(j) ==
    /\ job[j].pc = "log"
    /\ Finish(j, job[j], "success")
    /\ UNCHANGED <<dbExec, dbResults, cache, logs, ndeliv, uow>>
    /\ JobUnchanged

\* Lines 180-184: the handler sets FAILED, the error text and completed_at
\* and commits (with whatever the session has flushed).
ExecHandleException(j) ==
    /\ job[j].pc = "handler"
    /\ LET jr == SetAttrs(job[j], [status |-> FAILED, errmsg |-> job[j].exc,
                                   completed |-> 1])
       IN  /\ dbExec' = CommitExec(jr)
           /\ dbResults' = CommitResults(jr)
           /\ job' = [job EXCEPT ![j] =
                        [Committed(jr) EXCEPT !.pc = "snapshotF"]]
    /\ UNCHANGED <<cache, logs, msg, ndeliv, uow>>
    /\ JobUnchanged

\* Lines 186-195: the FAILED Progress Snapshot, then the exception is
\* re-raised.
ExecFailedSnapshot(j) ==
    /\ job[j].pc = "snapshotF"
    /\ cache' = [cache EXCEPT ![job[j].eid] =
                   [status |-> FAILED, error |-> job[j].exc]]
    /\ job' = [job EXCEPT ![j].pc = "raised"]
    /\ UNCHANGED <<dbExec, dbResults, logs, msg, ndeliv, uow>>
    /\ JobUnchanged

\* Lines 186-193 with the cache write raising inside the handler: that
\* exception leaves the job instead.
ExecFailedSnapshotFails(j) ==
    /\ job[j].pc = "snapshotF"
    /\ job' = [job EXCEPT ![j].pc = "raised", ![j].exc = "cache"]
    /\ UNCHANGED <<dbExec, dbResults, cache, logs, msg, ndeliv, uow>>
    /\ JobUnchanged

\* CallbackTask.on_failure / _mark_execution_failed, lines 30-50: the task
\* raised; in a new session the row, if it exists, is set FAILED with the
\* error text and completed_at.
MarkFailed(row, err) ==
    IF row = NoRow THEN row
    ELSE [row EXCEPT !.status = FAILED, !.errmsg = err, !.completed = 1]

OnFailure(j) ==
    /\ job[j].pc = "raised"
    /\ dbExec' = [dbExec EXCEPT ![job[j].eid] = MarkFailed(@, job[j].exc)]
    /\ Finish(j, job[j], "raised")
    /\ UNCHANGED <<dbResults, cache, logs, ndeliv, uow>>
    /\ JobUnchanged

\* The worker running the job is lost: the session is never committed and
\* the unacknowledged message goes back to the queue (task_acks_late,
\* task_reject_on_worker_lost).
\* Variant of WorkerLost in which the broker does not hand the message of a
\* lost worker out again (the message is acknowledged on receipt).
WorkerLostAcked(j) ==
    /\ InFlight(j)
    /\ job' = [job EXCEPT ![j] = [IdleJob EXCEPT !.pc = "crashed",
                                                 !.eid = job[j].eid]]
    /\ msg' = [msg EXCEPT ![job[j].eid] = "acked"]
    /\ UNCHANGED <<dbExec, dbResults, cache, logs, ndeliv, uow>>
    /\ JobUnchanged

WorkerLost(j) ==
    /\ InFlight(j)
    /\ job' = [job EXCEPT ![j] = [IdleJob EXCEPT !.pc = "crashed",
                                                 !.eid = job[j].eid]]
    /\ msg' = [msg EXCEPT ![job[j].eid] = "queued"]
    /\ UNCHANGED <<dbExec, dbResults, cache, logs, ndeliv, uow>>
    /\ JobUnchanged

\* ---------------------------------------------------- cancel_execution job
CancelUnchanged ==
    UNCHANGED <<tcStatus, tcSuites, dbResults, logs, msg, api, job, ndeliv, uow,
                sweep, poll, auth>>

\* Variant of Cancellable that also lets a COMPLETED execution be cancelled.
CancellableAlsoCompleted(row) ==
    row # NoRow /\ row.status \in {RUNNING, QUEUED, COMPLETED}

Cancellable(row) == row # NoRow /\ row.status \in {RUNNING, QUEUED}

InLoop(j) == job[j].pc \in {"create", "run", "progress"}

\* The terminal results produced so far by the execute job of e that is
\* inside its loop; -1 when there is none.
LoopProgress(e) ==
    IF \E j \in JobIds : job[j].eid = e /\ InLoop(j)
    THEN Len(job[CHOOSE j \in JobIds : job[j].eid = e /\ InLoop(j)].results)
    ELSE -1

\* A cancel job for execution id e, enqueued by cancel_test_execution (API,
\* lines 229-241, whatever the state of the execution), starts.  Lines
\* 387-397: the row is read; a missing row or a status other than RUNNING /
\* QUEUED ends the job with a result value.
CancelRead(c, e) ==
    /\ cjob[c].pc = "idle"
    /\ \A d \in CancelIds : d < c => cjob[d].pc # "idle"
    /\ LET row == dbExec[e]
       IN  cjob' = [cjob EXCEPT ![c] =
                     IF row = NoRow
                     THEN [@ EXCEPT !.pc = "done", !.eid = e, !.ret = "notfound"]
                     ELSE IF ~Cancellable(row)
                     THEN [@ EXCEPT !.pc = "done", !.eid = e, !.ret = "notrunning"]
                     ELSE [@ EXCEPT !.pc = "commit", !.eid = e]]
    /\ UNCHANGED <<dbExec, cache>>
    /\ CancelUnchanged

\* Lines 399-401: status CANCELLED and completed_at are committed.
CancelCommit(c) ==
    /\ cjob[c].pc = "commit"
    /\ dbExec' = [dbExec EXCEPT ![cjob[c].eid] =
                    WriteRow(@, [status |-> CANCELLED, completed |-> 1],
                             {"status", "completed"})]
    /\ cjob' = [cjob EXCEPT ![c].pc = "uncache",
                            ![c].k = LoopProgress(cjob[c].eid)]
    /\ UNCHANGED cache
    /\ CancelUnchanged

\* Lines 404-406: the Progress Snapshot is deleted; the job returns success.
CancelDeleteSnapshot(c) ==
    /\ cjob[c].pc = "uncache"
    /\ cache' = [cache EXCEPT ![cjob[c].eid] = NoSnap]
    /\ cjob' = [cjob EXCEPT ![c].pc = "done", ![c].ret = "success"]
    /\ UNCHANGED dbExec
    /\ CancelUnchanged

\* Line 404 with the cache delete raising: the job ends with the exception
\* (cancel_execution has no failure callback); the commit stands.
CancelDeleteSnapshotFails(c) ==
    /\ cjob[c].pc = "uncache"
    /\ cjob' = [cjob EXCEPT ![c].pc = "done", ![c].ret = "raised"]
    /\ UNCHANGED <<dbExec, cache>>
    /\ CancelUnchanged

\* ------------------------------------------------------------------- Next
Next ==
    \/ \E e \in ExecIds, s \in {NoSuite, TargetSuite} : ApiCreateExecution(e, s)
    \/ \E e \in ExecIds : ApiCommit(e)
    \/ \E e \in ExecIds : ExecStartNotFound(e)
    \/ \E e \in ExecIds : ExecStart(e)
    \/ \E j \in JobIds : ExecInitialSnapshot(j)
    \/ \E j \in JobIds : ExecInitialSnapshotFails(j)
    \/ \E j \in JobIds : ExecEmptyTargets(j)
    \/ \E j \in JobIds : ExecResolveTargets(j)
    \/ \E j \in JobIds : ExecCreateResult(j)
    \/ \E j \in JobIds : ExecCreateResultFails(j)
    \/ \E j \in JobIds, o \in RunnerOutcomes : ExecRunTest(j, o)
    \/ \E j \in JobIds : ExecUpdateProgress(j)
    \/ \E j \in JobIds : ExecUpdateProgressFails(j)
    \/ \E j \in JobIds : ExecComplete(j)
    \/ \E j \in JobIds : ExecFinalSnapshot(j)
    \/ \E j \in JobIds : ExecFinalSnapshotFails(j)
    \/ \E j \in JobIds : ExecStoreLogs(j)
    \/ \E j \in JobIds : ExecStoreLogsFails(j)
    \/ \E j \in JobIds : ExecHandleException(j)
    \/ \E j \in JobIds : ExecFailedSnapshot(j)
    \/ \E j \in JobIds : ExecFailedSnapshotFails(j)
    \/ \E j \in JobIds : OnFailure(j)
    \/ \E j \in JobIds : WorkerLost(j)
    \/ \E c \in CancelIds, e \in ExecIds : CancelRead(c, e)
    \/ \E c \in CancelIds : CancelCommit(c)
    \/ \E c \in CancelIds : CancelDeleteSnapshot(c)
    \/ \E c \in CancelIds : CancelDeleteSnapshotFails(c)

Spec == Init /\ [][Next]_vars

\* ================================================================ claims
\* The target set as the specification defines it: the test cases
\* associated with the suite, or the active test cases of the project.
TargetSet(row) ==
    IF row.suite # NoSuite
    THEN {t \in TestCaseIds : row.suite \in tcSuites[t]}
    ELSE {t \in TestCaseIds : tcStatus[t] = TC_ACTIVE}

JobsOf(e) == {j \in JobIds : job[j].pc # "idle" /\ job[j].eid = e}

NoCancelRan == \A c \in CancelIds : cjob[c].pc = "idle"

\* Job j takes a step of its own and its worker is not lost in it.
Steps(j) == job'[j] # job[j] /\ job'[j].pc # "crashed"

RowsWith(rows, t) == SelectSeq(rows, LAMBDA r : r.tc = t)

\* Result rows of execution e that exist: committed, or flushed in a session.
RowsCreated(e) ==
    Len(ResultsOf(dbResults, e))
    + SeqSum([j \in JobIds |-> IF job[j].eid = e THEN Len(job[j].pend) ELSE 0])

LoggedFor(e) == \E i \in 1..Len(logs) : logs[i].execution_id = e

\* C1: every change of an Execution row's status is one of QUEUED->RUNNING,
\* RUNNING->COMPLETED, RUNNING->FAILED, RUNNING->CANCELLED, QUEUED->CANCELLED;
\* a COMPLETED, FAILED or CANCELLED execution never changes status again.
LegalTransitions ==
    {<<QUEUED, RUNNING>>, <<RUNNING, COMPLETED>>, <<RUNNING, FAILED>>,
     <<RUNNING, CANCELLED>>, <<QUEUED, CANCELLED>>}

C1_OnlySpecifiedTransitions ==
    [][\A e \in ExecIds :
         (dbExec[e] # NoRow /\ dbExec'[e].status # dbExec[e].status)
         => <<dbExec[e].status, dbExec'[e].status>> \in LegalTransitions]_vars

\* C2: an execution run to completion by one execute job, with no cancel
\* job, holds at COMPLETED exactly one result row per test case of its
\* target set, each terminal, and the counters add up to total_tests = N.
C2_OneResultPerTarget ==
    \A e \in ExecIds :
      (/\ dbExec[e] # NoRow
       /\ dbExec[e].status = COMPLETED
       /\ Cardinality(JobsOf(e)) = 1
       /\ NoCancelRan)
      => LET r == dbExec[e]
             rows == ResultsOf(dbResults, e)
             T == TargetSet(r)
         IN  /\ Len(rows) = Cardinality(T)
             /\ \A t \in T : Len(RowsWith(rows, t)) = 1
             /\ \A i \in 1..Len(rows) : rows[i].status \in TerminalResult
             /\ r.passed + r.failed + r.skipped + r.blocked + r.error = r.total
             /\ r.total = Cardinality(T)

\* C3: when the execute entry point runs again for an execution that
\* already has committed terminal results, the state it completes in holds
\* exactly one terminal result per target test case.
C3_IdempotentReentry ==
    \A j \in JobIds :
      (job[j].pc = "snapshotC" /\ job[j].seen > 0)
      => LET rows == ResultsOf(dbResults, job[j].eid)
         IN  \A t \in TargetSet(job[j].row) :
               /\ Len(RowsWith(rows, t)) = 1
               /\ RowsWith(rows, t)[1].status \in TerminalResult

\* C4: once the row of an execution is CANCELLED, no result row is created
\* for it and no unit of work is invoked for it.
C4_NothingAfterCancelled ==
    [][\A e \in ExecIds :
         (dbExec[e] # NoRow /\ dbExec[e].status = CANCELLED)
         => (RowsCreated(e)' <= RowsCreated(e) /\ uow'[e] = uow[e])]_vars

\* C5: when a cancel job takes effect while the execute job has produced k
\* of the N results, the execution ends CANCELLED, and the remaining N-k
\* test cases have a SKIPPED result (none PENDING, none without a row).
C5_CancelledMidLoopSkipsRest ==
    \A c \in CancelIds :
      (/\ cjob[c].pc = "done" /\ cjob[c].ret = "success" /\ cjob[c].k >= 0
       /\ ndeliv = 1
       /\ \E j \in JobIds : /\ job[j].eid = cjob[c].eid
                            /\ job[j].pc = "done" /\ job[j].ret = "success")
      => LET r == dbExec[cjob[c].eid]
             rows == ResultsOf(dbResults, cjob[c].eid)
         IN  /\ r.status = CANCELLED
             /\ Len(rows) = r.total
             /\ CountStatus(rows, R_SKIPPED) = r.total - cjob[c].k
             /\ CountStatus(rows, R_PENDING) = 0

\* C6: a cancel job that reads the row as RUNNING or QUEUED goes on to commit
\* CANCELLED with completed_at and then to delete the Progress Snapshot; one
\* that reads any other status, or no row, ends with a result value and
\* leaves the row, the results and the snapshot as they are.
C6_CancelOnlyRunningOrQueued ==
    [][\A c \in CancelIds :
         cjob'[c] # cjob[c] =>
           LET e == cjob'[c].eid
           IN  CASE cjob[c].pc = "idle" ->
                      IF dbExec[e] # NoRow /\ dbExec[e].status \in {RUNNING, QUEUED}
                      THEN cjob'[c].pc = "commit"
                      ELSE /\ cjob'[c].pc = "done"
                           /\ cjob'[c].ret \in {"notfound", "notrunning"}
                           /\ UNCHANGED <<dbExec, dbResults, cache>>
                 [] cjob[c].pc = "commit" ->
                      /\ cjob'[c].pc = "uncache"
                      /\ dbExec'[e].status = CANCELLED
                      /\ dbExec'[e].completed = 1
                 [] cjob[c].pc = "uncache" ->
                      /\ cjob'[c].pc = "done"
                      /\ cjob'[c].ret = "success" => cache'[e] = NoSnap
                      /\ cjob'[c].ret # "success" => cjob'[c].ret = "raised"
                 [] OTHER -> FALSE]_vars

C6_Witness ==
    \E c \in CancelIds :
      /\ cjob[c].pc = "done" /\ cjob[c].ret = "notrunning"
      /\ dbExec[cjob[c].eid].status = COMPLETED
      /\ dbExec[cjob[c].eid].total > 0
      /\ cache[cjob[c].eid] # NoSnap

\* C7: a failing Progress Snapshot write does not raise out of the execute
\* job and never makes the Execution row FAILED.
C7_SnapshotFailureSwallowed ==
    /\ \A j \in JobIds : job[j].exc = "cache" => job[j].pc # "raised"
    /\ \A e \in ExecIds : dbExec[e] # NoRow => dbExec[e].errmsg # "cache"

\* C7, the case of the final snapshot: a row committed COMPLETED by a job
\* stays COMPLETED through a step in which that job's snapshot write fails
\* and through the steps of the job that follow.
C7_CompletedStaysCompleted ==
    [][\A j \in JobIds :
         (/\ job[j].pc \in {"snapshotC", "handler", "snapshotF", "raised"}
          /\ Steps(j)
          /\ dbExec[job[j].eid].status = COMPLETED)
         => dbExec'[job[j].eid].status = COMPLETED]_vars

\* C8: when the append to the Execution Log Store fails, the execute job
\* returns success and the row, COMPLETED in the job's session, and the
\* results are left exactly as committed.
C8_LogFailureIgnored ==
    [][\A j \in JobIds :
         (job[j].pc = "log" /\ Steps(j) /\ logs' = logs)
         => /\ job'[j].pc = "done" /\ job'[j].ret = "success"
            /\ job[j].row.status = COMPLETED
            /\ job[j].row.completed = 1 /\ job[j].row.duration = 1
            /\ job[j].dirty = {}
            /\ UNCHANGED <<dbExec, dbResults>>]_vars

C8_Witness ==
    \E j \in JobIds :
      /\ job[j].pc = "done" /\ job[j].ret = "success"
      /\ dbExec[job[j].eid].status = COMPLETED
      /\ dbExec[job[j].eid].total > 0
      /\ ~LoggedFor(job[j].eid)

\* C9: a unit of work that raises gives its test case an ERROR result with
\* the message; the loop still runs every target test case and the row is
\* committed COMPLETED with error_tests counting the raising cases.
CountOuts(outs, o) == Len(SelectSeq(outs, LAMBDA x : x = o))

C9_RunnerErrorContained ==
    \A j \in JobIds :
      /\ Len(job[j].outs) = Len(job[j].results)
      /\ \A i \in 1..Len(job[j].outs) :
           job[j].outs[i] = "raise"
           => job[j].results[i].status = R_ERROR /\ job[j].results[i].err # NoErr
      /\ job[j].pc = "snapshotC"
         => /\ Len(job[j].results) = Len(job[j].cases)
            /\ job[j].row.status = COMPLETED
            /\ job[j].row.error >= CountOuts(job[j].outs, "raise")
            /\ job[j].seen = 0
               => job[j].row.error = CountOuts(job[j].outs, "raise")
            /\ CountStatus(ResultsOf(dbResults, job[j].eid), R_ERROR)
               = job[j].row.error

C9_Witness ==
    \E j \in JobIds :
      /\ job[j].pc = "snapshotC"
      /\ Len(job[j].cases) = 2
      /\ job[j].outs[1] = "raise"
      /\ job[j].results[2].status = R_PASSED
      /\ dbExec[job[j].eid].status = COMPLETED

\* C10: the step of an execute job whose target list is empty commits the
\* row COMPLETED with total_tests 0, pass rate 0 and completed_at, returns
\* success, and creates no result row and invokes no unit of work.
C10_EmptyTargetsComplete ==
    [][\A j \in JobIds :
         (job[j].pc = "resolve" /\ GetTestCases(job[j].row) = <<>> /\ Steps(j))
         => LET e == job[j].eid
            IN  /\ dbExec'[e].status = COMPLETED
                /\ dbExec'[e].total = 0
                /\ PassRate(dbExec'[e]) = 0
                /\ dbExec'[e].completed = 1
                /\ dbExec'[e].errmsg = dbExec[e].errmsg
                /\ job'[j].pc = "done" /\ job'[j].ret = "success"
                /\ UNCHANGED <<dbResults, uow>>]_vars

C10_Witness ==
    \E j \in JobIds :
      /\ job[j].pc = "done" /\ job[j].ret = "success"
      /\ dbExec[job[j].eid].status = COMPLETED
      /\ GetTestCases(dbExec[job[j].eid]) = <<>>
      /\ dbExec[job[j].eid].total = 0
      /\ ResultsOf(dbResults, job[j].eid) = <<>>
      /\ uow[job[j].eid] = 0

\* ------------------------------------------------------------- C11 .. C20
LogsOf(e) == SelectSeq(logs, LAMBDA d : d.execution_id = e)

\* C11: there is at most one Execution Log Store entry per execution id, and
\* an execution that is COMPLETED and whose execute job has returned success
\* has exactly one, listing one item per result row of the execution (an
\* empty list when the target set is empty).
C11_OneLogEntryPerCompleted ==
    \A e \in ExecIds :
      /\ Len(LogsOf(e)) <= 1
      /\ (/\ dbExec[e] # NoRow /\ dbExec[e].status = COMPLETED
          /\ \E j \in JobIds : /\ job[j].eid = e /\ job[j].pc = "done"
                               /\ job[j].ret = "success")
         => /\ Len(LogsOf(e)) = 1
            /\ LogsOf(e)[1].results_count = Len(ResultsOf(dbResults, e))

\* C12: when an exception other than a runner failure has escaped the
\* per-test-case loop and the execute job has re-raised it, the job has
\* committed FAILED with the error text and completed_at on the row and has
\* written a FAILED Progress Snapshot with the error text.
C12_FailurePersistedBeforeReraise ==
    \A j \in JobIds :
      (job[j].pc = "raised" /\ job[j].cases # <<>> /\ NoCancelRan)
      => LET e == job[j].eid
         IN  /\ dbExec[e].status = FAILED
             /\ dbExec[e].errmsg # NoErr
             /\ dbExec[e].completed = 1
             /\ cache[e].status = FAILED
             /\ cache[e].error # NoErr

\* TestExecution.max_retries: the column default, which create_execution
\* stores for a request that does not set it.
DefaultMaxRetries == 3

\* The execute jobs of execution e that ended by raising.
FailedAttempts(e) ==
    {j \in JobIds : job[j].eid = e /\ job[j].pc = "done" /\ job[j].ret = "raised"}

\* C13: an execution is FAILED because of a persistence failure in its
\* execute job only once the job has been retried up to the configured
\* maximum, i.e. after max_retries + 1 failed attempts.
C13_FailedOnlyAfterRetries ==
    \A e \in ExecIds :
      (dbExec[e] # NoRow /\ dbExec[e].status = FAILED /\ dbExec[e].errmsg = "db")
      => Cardinality(FailedAttempts(e)) = DefaultMaxRetries + 1

\* ---- the execute jobs of the engine with finitely many worker crashes and
\* fair scheduling (no cancel requests)
\* The deliveries the broker still owes: one for each message in the queue
\* and one for each execution that has not been created yet.
DeliveriesOwed ==
    Cardinality({e \in ExecIds : msg[e] = "queued"})
    + Cardinality({e \in ExecIds : api[e].pc = "idle"})

\* A worker is lost while the broker can still deliver the message again
\* and every other message it owes: the crashes of a behaviour are finite
\* and never use up the deliveries.
WorkerLostRedeliverable(j) ==
    /\ ndeliv + DeliveriesOwed + 1 <= MaxDeliveries
    /\ WorkerLost(j)

LiveNext ==
    \/ \E e \in ExecIds, s \in {NoSuite, TargetSuite} : ApiCreateExecution(e, s)
    \/ \E e \in ExecIds : ApiCommit(e)
    \/ \E e \in ExecIds : ExecStartNotFound(e)
    \/ \E e \in ExecIds : ExecStart(e)
    \/ \E j \in JobIds : ExecInitialSnapshot(j)
    \/ \E j \in JobIds : ExecInitialSnapshotFails(j)
    \/ \E j \in JobIds : ExecEmptyTargets(j)
    \/ \E j \in JobIds : ExecResolveTargets(j)
    \/ \E j \in JobIds : ExecCreateResult(j)
    \/ \E j \in JobIds : ExecCreateResultFails(j)
    \/ \E j \in JobIds, o \in RunnerOutcomes : ExecRunTest(j, o)
    \/ \E j \in JobIds : ExecUpdateProgress(j)
    \/ \E j \in JobIds : ExecUpdateProgressFails(j)
    \/ \E j \in JobIds : ExecComplete(j)
    \/ \E j \in JobIds : ExecFinalSnapshot(j)
    \/ \E j \in JobIds : ExecFinalSnapshotFails(j)
    \/ \E j \in JobIds : ExecStoreLogs(j)
    \/ \E j \in JobIds : ExecStoreLogsFails(j)
    \/ \E j \in JobIds : ExecHandleException(j)
    \/ \E j \in JobIds : ExecFailedSnapshot(j)
    \/ \E j \in JobIds : ExecFailedSnapshotFails(j)
    \/ \E j \in JobIds : OnFailure(j)
    \/ \E j \in JobIds : WorkerLostRedeliverable(j)

\* Fair scheduling: the workers keep taking messages and the jobs that
\* have started keep going, as long as some step is possible.  Every job is
\* finite and the crashes are bounded, so this drives each job to its end.
LiveSpec == Init /\ [][LiveNext]_vars /\ WF_vars(LiveNext)

TerminalStatus == {COMPLETED, FAILED, CANCELLED}

\* C14: with fair scheduling, redelivery of unacknowledged messages and
\* finitely many worker crashes, an execution that a worker has moved to
\* RUNNING eventually has a terminal status.
C14_RunningEventuallyTerminal ==
    \A e \in ExecIds :
      (dbExec[e] # NoRow /\ dbExec[e].status = RUNNING)
      ~> (dbExec[e].status \in TerminalStatus)

C14_Witness ==
    \E j \in JobIds, k \in JobIds :
      /\ job[j].pc = "crashed" /\ job[k].pc = "done" /\ job[k].eid = job[j].eid
      /\ dbExec[job[j].eid].status \in {COMPLETED, FAILED}

\* C15: the job enqueued by create_execution finds the Execution row: once
\* the request has committed and a worker has processed the job, the
\* execution is no longer QUEUED, and no execute job ends "not found".
C15_CreatedExecutionPickedUp ==
    \A e \in ExecIds :
      /\ \A j \in JobIds : ~(job[j].eid = e /\ job[j].pc = "done"
                                           /\ job[j].ret = "notfound")
      /\ (api[e].pc = "done" /\ msg[e] = "acked") => dbExec[e].status # QUEUED

SeqToSet(q) == {q[i] : i \in 1..Len(q)}

\* C16: the target list an execute job resolves holds each test case of the
\* target set exactly once (the test cases of the suite, or the active test
\* cases of the project), and the job creates at most one result row per
\* test case.
C16_TargetsResolvedOnce ==
    \A j \in JobIds :
      job[j].cases # <<>>
      => /\ SeqToSet(job[j].cases) = TargetSet(job[j].row)
         /\ Len(job[j].cases) = Cardinality(TargetSet(job[j].row))
         /\ \A t \in TestCaseIds : Len(RowsWith(job[j].results, t)) <= 1

\* C17: in every committed state of an Execution row,
\* passed + failed + skipped + blocked + error <= total_tests.
C17_CountersWithinTotal ==
    \A e \in ExecIds :
      dbExec[e] # NoRow
      => dbExec[e].passed + dbExec[e].failed + dbExec[e].skipped
         + dbExec[e].blocked + dbExec[e].error <= dbExec[e].total

\* ---- pass_rate over a range of counters
\* The job has just committed COMPLETED (line 153) for an execution whose
\* result rows count p passed, f failed, s skipped, b blocked and x error;
\* the step is the COMPLETED snapshot, which reads execution.pass_rate.
CountedResults(e, n, st) == Repeat([eid |-> e, tc |-> 1, status |-> st, err |-> NoErr], n)

PassRateInit ==
    \E p \in 0..MaxCount, f \in 0..MaxCount, s \in 0..1, b \in 0..1, x \in 0..1 :
      LET row == [NewExecution(NoSuite) EXCEPT
                    !.status = COMPLETED, !.total = p + f + s + b + x,
                    !.passed = p, !.failed = f, !.skipped = s, !.blocked = b,
                    !.error = x, !.started = 1, !.completed = 1, !.duration = 1]
      IN  /\ tcStatus = [t \in TestCaseIds |-> TC_ACTIVE]
          /\ tcSuites = [t \in TestCaseIds |-> {}]
          /\ dbExec = [e \in ExecIds |-> IF e = 1 THEN row ELSE NoRow]
          /\ dbResults = CountedResults(1, p, R_PASSED) \o CountedResults(1, f, R_FAILED)
                         \o CountedResults(1, s, R_SKIPPED)
                         \o CountedResults(1, b, R_BLOCKED)
                         \o CountedResults(1, x, R_ERROR)
          /\ cache = [e \in ExecIds |-> NoSnap]
          /\ logs = <<>>
          /\ msg = [e \in ExecIds |-> IF e = 1 THEN "taken" ELSE "none"]
          /\ api = [e \in ExecIds |->
                     [pc |-> IF e = 1 THEN "done" ELSE "idle", suite |-> NoSuite]]
          /\ job = [j \in JobIds |->
                     IF j = 1
                     THEN [IdleJob EXCEPT !.pc = "snapshotC", !.eid = 1, !.row = row]
                     ELSE IdleJob]
          /\ ndeliv = 1
          /\ cjob = [c \in CancelIds |-> IdleCancel]
          /\ uow = [e \in ExecIds |-> IF e = 1 THEN p + f + x ELSE 0]
          /\ sweep = IdleSweep
          /\ poll = NoPoll
          /\ auth = NoUsers

PassRateNext == \E j \in JobIds : ExecFinalSnapshot(j)

PassRateSpec == PassRateInit /\ [][PassRateNext]_vars

Abs(n) == IF n < 0 THEN 0 - n ELSE n

\* C18, as the code computes it: pass_rate (in hundredths of a percent) lies
\* in [0, 100], is 0 when passed + failed = 0, and otherwise is
\* passed / (passed + failed) x 100 rounded to two decimal places; skipped,
\* blocked and error counts do not affect it.
C18_PassRateRounded ==
    \A j \in JobIds :
      job[j].pc = "log"
      => LET r == job[j].row
             pr == cache[job[j].eid].pass_rate
             executed == r.passed + r.failed
         IN  /\ pr \in 0..10000
             /\ executed = 0 => pr = 0
             /\ executed > 0 => 2 * Abs(pr * executed - r.passed * 10000) <= executed
             /\ pr = PassRate([r EXCEPT !.skipped = 0, !.blocked = 0, !.error = 0])

C18_Witness ==
    \E j \in JobIds :
      /\ job[j].pc = "log"
      /\ job[j].row.passed = 1 /\ job[j].row.failed = 2 /\ job[j].row.skipped = 1
      /\ cache[job[j].eid].pass_rate = 3333

\* C18 as stated: when passed + failed > 0, pass_rate equals
\* passed / (passed + failed) x 100 exactly.
C18_PassRateExact ==
    \A j \in JobIds :
      job[j].pc = "log"
      => LET r == job[j].row
             pr == cache[job[j].eid].pass_rate
             executed == r.passed + r.failed
         IN  /\ pr \in 0..10000
             /\ executed = 0 => pr = 0
             /\ executed > 0 => pr * executed = r.passed * 10000

Counters(row) == <<row.passed, row.failed, row.skipped, row.blocked, row.error>>

\* C19: a committed row whose status is QUEUED or RUNNING has all its
\* counters at 0, and a commit changes the counters only when it moves the
\* status to a terminal value.
C19_CountersOnlyAtTerminal ==
    [][\A e \in ExecIds :
         dbExec'[e] # NoRow
         => /\ dbExec'[e].status \in {QUEUED, RUNNING}
               => Counters(dbExec'[e]) = <<0, 0, 0, 0, 0>>
            /\ (dbExec[e] # NoRow /\ Counters(dbExec'[e]) # Counters(dbExec[e]))
               => /\ dbExec'[e].status \in TerminalStatus
                  /\ dbExec[e].status \notin TerminalStatus]_vars

\* ---- cleanup_old_results: the retention sweep
SweepExecIds == 1..MaxSweepExecs

\* Variant of Sweepable that ignores the age of the row.
SweepableAnyAge(row) == row # NoRow /\ row.status \in TerminalStatus

\* The WHERE clause of lines 357-366: created_at < cutoff and status in
\* (COMPLETED, FAILED, CANCELLED).
Sweepable(row) == row # NoRow /\ row.old = 1 /\ row.status \in TerminalStatus

\* _cleanup_old_results_async, lines 353-376, one transaction: the selected
\* executions are deleted, their results with them (cascade of
\* TestExecution.results), and the count is returned.
CleanupOldResults ==
    /\ sweep.pc = "idle"
    /\ LET old_executions == {e \in DOMAIN dbExec : Sweepable(dbExec[e])}
       IN  /\ dbExec' = [e \in DOMAIN dbExec |->
                           IF e \in old_executions THEN NoRow ELSE dbExec[e]]
           /\ dbResults' = SelectSeq(dbResults, LAMBDA r : r.eid \notin old_executions)
           /\ sweep' = [pc |-> "done", cleaned |-> Cardinality(old_executions)]
    /\ UNCHANGED <<tcStatus, tcSuites, cache, logs, msg, api, job, ndeliv, cjob, uow,
                   poll, auth>>

\* A Record Store as earlier activity left it: for each execution id no
\* row, or a row of any status and age with its result rows; no execute or
\* cancel job is running.
StoredExecutions ==
    {NoRow} \cup {[NewExecution(NoSuite) EXCEPT !.status = st, !.old = a, !.total = n,
                                             !.passed = n]
                   : st \in ExecutionStatus, a \in {0, 1}, n \in 0..MaxSweepRows}

RECURSIVE StoredResults(_, _)
StoredResults(rows, n) ==
    IF n = 0 THEN <<>>
    ELSE StoredResults(rows, n - 1)
         \o (IF rows[n] = NoRow THEN <<>>
             ELSE CountedResults(n, rows[n].total, R_PASSED))

SweepInit ==
    \E rows \in [SweepExecIds -> StoredExecutions] :
      /\ tcStatus = [t \in TestCaseIds |-> TC_ACTIVE]
      /\ tcSuites = [t \in TestCaseIds |-> {}]
      /\ dbExec = rows
      /\ dbResults = StoredResults(rows, MaxSweepExecs)
      /\ cache = [e \in SweepExecIds |-> NoSnap]
      /\ logs = <<>>
      /\ msg = [e \in SweepExecIds |-> "acked"]
      /\ api = [e \in SweepExecIds |-> [pc |-> "done", suite |-> NoSuite]]
      /\ job = [j \in JobIds |-> IdleJob]
      /\ ndeliv = 0
      /\ cjob = [c \in CancelIds |-> IdleCancel]
      /\ uow = [e \in SweepExecIds |-> 0]
      /\ sweep = IdleSweep
      /\ poll = NoPoll
      /\ auth = NoUsers

SweepNext == CleanupOldResults

SweepSpec == SweepInit /\ [][SweepNext]_vars

\* C20: a retention sweep deletes exactly the executions that are COMPLETED,
\* FAILED or CANCELLED and older than the retention window, and exactly
\* their result rows; every other execution and its results stay as they
\* are, and no result row is left whose execution is gone.
C20_SweepDeletesOldTerminalOnly ==
    [][sweep'.pc # sweep.pc =>
         LET expired == {e \in DOMAIN dbExec :
                           /\ dbExec[e] # NoRow
                           /\ dbExec[e].status \in {COMPLETED, FAILED, CANCELLED}
                           /\ dbExec[e].old = 1}
         IN  /\ \A e \in DOMAIN dbExec :
                   dbExec'[e] = IF e \in expired THEN NoRow ELSE dbExec[e]
             /\ \A e \in DOMAIN dbExec :
                   ResultsOf(dbResults', e)
                     = IF e \in expired THEN <<>> ELSE ResultsOf(dbResults, e)
             /\ \A i \in 1..Len(dbResults') : dbExec'[dbResults'[i].eid] # NoRow
             /\ sweep'.cleaned = Cardinality(expired)]_vars

C20_Witness ==
    /\ sweep.pc = "done" /\ sweep.cleaned = 1
    /\ \E e \in DOMAIN dbExec :
         /\ dbExec[e] # NoRow /\ dbExec[e].status = COMPLETED /\ dbExec[e].old = 0
         /\ ResultsOf(dbResults, e) # <<>>

\* ------------------------------------------------------------- C21 .. C30
\* ---- two execute jobs of one execution at the same time
\* The broker hands the message of a running job out again before the job
\* has acknowledged it (task_acks_late: the message stays unacknowledged
\* for the whole run, and a broker visibility timeout or a second submit
\* makes a second delivery while the first is still running).
DuplicateDelivery(e) ==
    /\ msg[e] = "taken"
    /\ ndeliv < MaxDeliveries
    /\ msg' = [msg EXCEPT ![e] = "queued"]
    /\ UNCHANGED <<tcStatus, tcSuites, dbExec, dbResults, cache, logs, api, job,
                   ndeliv, cjob, uow, sweep, poll, auth>>

\* The execute jobs without faults, crashes and cancel requests, with
\* duplicate deliveries.
DupNext ==
    \/ \E e \in ExecIds, s \in {NoSuite, TargetSuite} : ApiCreateExecution(e, s)
    \/ \E e \in ExecIds : ApiCommit(e)
    \/ \E e \in ExecIds : ExecStart(e)
    \/ \E e \in ExecIds : DuplicateDelivery(e)
    \/ \E j \in JobIds : ExecInitialSnapshot(j)
    \/ \E j \in JobIds : ExecEmptyTargets(j)
    \/ \E j \in JobIds : ExecResolveTargets(j)
    \/ \E j \in JobIds : ExecCreateResult(j)
    \/ \E j \in JobIds, o \in RunnerOutcomes : ExecRunTest(j, o)
    \/ \E j \in JobIds : ExecUpdateProgress(j)
    \/ \E j \in JobIds : ExecComplete(j)
    \/ \E j \in JobIds : ExecFinalSnapshot(j)
    \/ \E j \in JobIds : ExecStoreLogs(j)

DupSpec == Init /\ [][DupNext]_vars

\* C21: once two execute jobs of one execution have both returned, the
\* counters of the row equal a recount of its result rows, no target test
\* case has more than one terminal result, and the counters add up to
\* total_tests.
C21_DuplicateJobsKeepState ==
    \A e \in ExecIds :
      (/\ dbExec[e] # NoRow
       /\ Cardinality({j \in JobIds : job[j].eid = e /\ job[j].pc = "done"
                                      /\ job[j].ret = "success"}) = 2)
      => LET r == dbExec[e]
             rows == ResultsOf(dbResults, e)
         IN  /\ Counters(r) = <<CountStatus(rows, R_PASSED), CountStatus(rows, R_FAILED),
                                CountStatus(rows, R_SKIPPED), CountStatus(rows, R_BLOCKED),
                                CountStatus(rows, R_ERROR)>>
             /\ \A t \in TestCaseIds :
                  Len(SelectSeq(RowsWith(rows, t),
                                LAMBDA x : x.status \in TerminalResult)) <= 1
             /\ r.passed + r.failed + r.skipped + r.blocked + r.error = r.total

\* ---- GET /executions/{id}/progress

\* The response when the execution does not exist.
NotFound == [NoPoll EXCEPT !.http = 404]

\* Variant of the progress read that needs the snapshot.
ProgressOfNeedsSnapshot(row, cache_data) ==
    IF row = NoRow \/ cache_data = NoSnap THEN NotFound
    ELSE [NoPoll EXCEPT !.http = 200, !.status = row.status]

\* The body of get_execution_progress: cache_data is fetched and not used;
\* the answer is computed from the row (the handler fills in the id it was
\* asked for).  percent is the fraction
\* <<numerator, denominator>>; elapsed names the difference of clock
\* readings the code takes.
ProgressOf(row, cache_data) ==
    IF row = NoRow THEN NotFound
    ELSE LET completed == row.passed + row.failed + row.skipped
         IN  [http      |-> 200,
              execution_id |-> 0,
              status    |-> row.status,
              total     |-> row.total,
              completed |-> completed,
              passed    |-> row.passed,
              failed    |-> row.failed,
              percent   |-> IF row.total > 0 THEN <<completed * 100, row.total>>
                            ELSE <<0, 1>>,
              elapsed   |-> IF row.started = 0 THEN "0"
                            ELSE IF row.completed # 0 THEN "completed_at - started_at"
                            ELSE "now - started_at"]

GetExecutionProgress(e) ==
    /\ poll' = [ProgressOf(dbExec[e], cache[e]) EXCEPT !.execution_id = e]
    /\ UNCHANGED <<tcStatus, tcSuites, dbExec, dbResults, cache, logs, msg, api, job,
                   ndeliv, cjob, uow, sweep, auth>>

\* Every snapshot is stored with expire=3600: Redis drops it an hour after
\* it was written.
SnapshotExpires(e) ==
    /\ cache[e] # NoSnap
    /\ cache' = [cache EXCEPT ![e] = NoSnap]
    /\ UNCHANGED <<tcStatus, tcSuites, dbExec, dbResults, logs, msg, api, job,
                   ndeliv, cjob, uow, sweep, poll, auth>>

\* The execute jobs with their faults, snapshots expiring, and clients
\* polling the progress.
PollNext ==
    \/ LiveNext
    \/ \E e \in ExecIds : SnapshotExpires(e)
    \/ \E e \in ExecIds : GetExecutionProgress(e)

PollSpec == Init /\ [][PollNext]_vars

C29_CompletedReadsAllDone ==
    [][\A e \in ExecIds :
         (/\ poll' # poll
          /\ poll'.execution_id = e
          /\ dbExec[e] # NoRow
          /\ dbExec[e].status = COMPLETED
          /\ dbExec[e].total > 0)
         => /\ poll'.completed = dbExec[e].total
            /\ poll'.percent[1] = 100 * poll'.percent[2]]_vars

\* ---- AuthService.register

MaxEmails == 3
MaxUsernames == 3
Emails == 1..MaxEmails
Usernames == 1..MaxUsernames

\* _get_user_by_email / _get_user_by_username: the user row or none.
GetUserByEmail(users, email) == SelectSeq(users, LAMBDA u : u.email = email)
GetUserByUsername(users, username) == SelectSeq(users, LAMBDA u : u.username = username)

\* Variant of register that looks the email up only.
RegisterEmailOnly(email, username) ==
    /\ IF GetUserByEmail(auth.users, email) # <<>>
       THEN auth' = [auth EXCEPT !.email = email, !.username = username,
                                 !.ret = "ConflictError"]
       ELSE auth' = [users |-> Append(auth.users, [email |-> email, username |-> username]),
                     email |-> email, username |-> username, ret |-> "created"]
    /\ UNCHANGED <<tcStatus, tcSuites, dbExec, dbResults, cache, logs, msg, api, job,
                   ndeliv, cjob, uow, sweep, poll>>

\* AuthService.register: two lookups, then the INSERT (add and flush).
Register(email, username) ==
    /\ IF GetUserByEmail(auth.users, email) # <<>>
       THEN auth' = [auth EXCEPT !.email = email, !.username = username,
                                 !.ret = "ConflictError"]
       ELSE IF GetUserByUsername(auth.users, username) # <<>>
       THEN auth' = [auth EXCEPT !.email = email, !.username = username,
                                 !.ret = "ConflictError"]
       ELSE auth' = [users |-> Append(auth.users, [email |-> email, username |-> username]),
                     email |-> email, username |-> username, ret |-> "created"]
    /\ UNCHANGED <<tcStatus, tcSuites, dbExec, dbResults, cache, logs, msg, api, job,
                   ndeliv, cjob, uow, sweep, poll>>

AuthNext == \E email \in Emails, username \in Usernames : Register(email, username)

AuthSpec == Init /\ [][AuthNext]_vars

\* C23: any register call whose email or username already belongs to a user
\* raises ConflictError and adds no user, a call with a fresh email and a
\* fresh username adds exactly one user, and afterwards no two users share
\* an email or a username.
C23_RegisterKeepsUsersUnique ==
    [][auth' # auth =>
         LET users == auth.users
             taken == \E i \in 1..Len(users) :
                        \/ users[i].email = auth'.email
                        \/ users[i].username = auth'.username
         IN  /\ taken => (auth'.ret = "ConflictError" /\ auth'.users = users)
             /\ ~taken => (/\ auth'.ret = "created"
                           /\ Len(auth'.users) = Len(users) + 1
                           /\ SubSeq(auth'.users, 1, Len(users)) = users)
             /\ \A i, k \in 1..Len(auth'.users) :
                  i # k => /\ auth'.users[i].email # auth'.users[k].email
                           /\ auth'.users[i].username # auth'.users[k].username]_vars

C23_Witness ==
    /\ Len(auth.users) >= 2
    /\ auth.ret = "ConflictError"
    /\ \E i \in 1..Len(auth.users) : auth.users[i].username = auth.username
    /\ \A i \in 1..Len(auth.users) : auth.users[i].email # auth.email

\* C24: the side effects of RUNNING -> COMPLETED happen in order.  A job
\* reaches its COMPLETED snapshot write only by the commit that stores the
\* row as COMPLETED with completed-at, duration and the counters recounted
\* from the result rows of the execution; a COMPLETED snapshot is written
\* only at that point and the log entry only after the snapshot was written;
\* so whenever a COMPLETED snapshot or a log entry of an execution exists,
\* its row carries the completed-at and duration of a COMPLETED commit.
C24_CompletedSideEffectsInOrder ==
    [][/\ \A j \in JobIds :
            LET e == job'[j].eid IN
            /\ (job'[j].pc = "snapshotC" /\ job[j].pc # "snapshotC")
               => /\ dbExec'[e].status = COMPLETED
                  /\ dbExec'[e].completed # 0
                  /\ dbExec'[e].duration # 0
                  /\ LET rows == ResultsOf(dbResults', e)
                     IN  Counters(dbExec'[e])
                         = <<CountStatus(rows, R_PASSED), CountStatus(rows, R_FAILED),
                             CountStatus(rows, R_SKIPPED), CountStatus(rows, R_BLOCKED),
                             CountStatus(rows, R_ERROR)>>
                  /\ cache' = cache
                  /\ logs' = logs
            /\ (job'[j].pc = "log" /\ job[j].pc # "log")
               => /\ job[j].pc = "snapshotC"
                  /\ cache'[e].status = COMPLETED
                  /\ logs' = logs
       /\ \A e \in ExecIds :
            /\ (cache'[e] # cache[e] /\ cache'[e].status = COMPLETED)
               => \E j \in JobIds : job[j].eid = e /\ job[j].pc = "snapshotC"
            /\ Len(LogsOf(e)') > Len(LogsOf(e))
               => \E j \in JobIds : job[j].eid = e /\ job[j].pc = "log"
            /\ (cache'[e].status = COMPLETED \/ LogsOf(e)' # <<>>)
               => /\ dbExec'[e] # NoRow
                  /\ dbExec'[e].completed # 0
                  /\ dbExec'[e].duration # 0]_vars

C24_Witness ==
    \E e \in ExecIds :
      /\ dbExec[e] # NoRow
      /\ dbExec[e].status = COMPLETED
      /\ dbExec[e].total > 0
      /\ cache[e].status = COMPLETED
      /\ Len(LogsOf(e)) = 1

\* The result rows of its execution that the session of job j sees: the
\* committed ones and the ones it has flushed.
SessionResults(j) == ResultsOf(dbResults, job[j].eid) \o job[j].pend

PendingCount(rows) == CountStatus(rows, R_PENDING)

\* C25: within one execute job the loop is strictly sequential.  On every
\* step of a running job that is neither a worker loss nor a rollback: a new
\* result row appears only as one PENDING row for the next test case in
\* enumeration order, while every earlier row is terminal and before the
\* runner is invoked for it; a PENDING row changes only by the runner's
\* invocation, once, to PASSED, FAILED or ERROR; a terminal row never
\* changes; and at most one result of the execution is PENDING.
C25_LoopStrictlySequential ==
    [][\A j \in JobIds :
         (/\ InFlight(j)
          /\ job'[j] # job[j]
          /\ job'[j].pc \notin {"crashed", "raised"})
         => LET old == SessionResults(j)
                new == SessionResults(j)'
                e == job[j].eid
            IN  /\ Len(new) \in {Len(old), Len(old) + 1}
                /\ \A i \in 1..Len(old) :
                     \/ new[i] = old[i]
                     \/ /\ old[i].status = R_PENDING
                        /\ new[i].status \in {R_PASSED, R_FAILED, R_ERROR}
                        /\ new[i].tc = old[i].tc
                        /\ uow'[e] = uow[e] + 1
                /\ Len(new) = Len(old) + 1
                   => /\ new[Len(new)].status = R_PENDING
                      /\ new[Len(new)].tc = job[j].cases[Len(job[j].results) + 1]
                      /\ PendingCount(old) = 0
                      /\ uow'[e] = uow[e]
                /\ uow'[e] # uow[e] => PendingCount(old) = 1 /\ PendingCount(new) = 0
                /\ PendingCount(new) <= 1
                /\ PendingCount(ResultsOf(dbResults', e))
                   + SeqSum([k \in JobIds |->
                               IF job'[k].eid = e THEN PendingCount(job'[k].pend)
                               ELSE 0]) <= 1]_vars

C25_Witness ==
    \E j \in JobIds :
      /\ job[j].pc = "run"
      /\ Len(job[j].pend) = 2
      /\ job[j].pend[1].status \in TerminalResult
      /\ job[j].pend[2].status = R_PENDING
      /\ uow[job[j].eid] = 1

\* C26: when the k-th of the N target test cases of a job has finished and
\* the job has written its progress, the Progress Snapshot has status
\* RUNNING, completed = k, total = N, percent = k / N x 100, and the numbers
\* of passed and of failed results so far.
C26_SnapshotAfterKth ==
    [][\A j \in JobIds :
         (job[j].pc = "progress" /\ job'[j].pc \in {"create", "summary"})
         => LET snap == cache'[job[j].eid]
                k == Len(job[j].results)
                N == Len(job[j].cases)
            IN  /\ snap.status = RUNNING
                /\ snap.completed = k
                /\ snap.total = N
                /\ snap.progress[1] * N = k * 100 * snap.progress[2]
                /\ {"passed", "failed"} \subseteq DOMAIN snap
                /\ snap.passed = CountStatus(job[j].results, R_PASSED)
                /\ snap.failed = CountStatus(job[j].results, R_FAILED)]_vars

\* C27: once an execution has a terminal status and neither an execute job
\* nor a cancel job of it is in flight or waiting in the queue, its Progress
\* Snapshot is absent or shows that terminal status.
C27_NoStaleSnapshot ==
    \A e \in ExecIds :
      (/\ dbExec[e] # NoRow
       /\ dbExec[e].status \in TerminalStatus
       /\ msg[e] # "queued"
       /\ \A j \in JobIds : job[j].eid = e => ~InFlight(j)
       /\ \A c \in CancelIds : cjob[c].eid = e => cjob[c].pc \in {"idle", "done"})
      => (cache[e] = NoSnap \/ cache[e].status = dbExec[e].status)

\* C28: an execute job whose execution id has no row at job start ends at
\* once with the failure answer, its message is acknowledged and never
\* delivered again, and the job writes nothing to the Record Store, the
\* Progress Cache or the Execution Log Store.
C28_MissingExecutionEndsJob ==
    [][\A j \in JobIds :
         /\ (job[j].pc = "idle" /\ job'[j].pc # "idle" /\ dbExec[job'[j].eid] = NoRow)
            => /\ job'[j].pc = "done"
               /\ job'[j].ret = "notfound"
               /\ msg'[job'[j].eid] = "acked"
               /\ dbExec' = dbExec
               /\ dbResults' = dbResults
               /\ cache' = cache
               /\ logs' = logs
         /\ (job[j].pc = "done" /\ job[j].ret = "notfound")
            => /\ job'[j] = job[j]
               /\ msg'[job[j].eid] = "acked"
               /\ \A k \in JobIds : job[k].eid # job[j].eid => job'[k].eid # job[j].eid]_vars

C28_Witness ==
    \E j \in JobIds :
      /\ job[j].pc = "done"
      /\ job[j].ret = "notfound"
      /\ msg[job[j].eid] = "acked"
      /\ dbExec[job[j].eid] # NoRow
      /\ dbExec[job[j].eid].status = QUEUED
      /\ cache[job[j].eid] = NoSnap
      /\ logs = <<>>

\* C30: the result rows of the loop are flushed, not committed.  The result
\* rows of the Record Store change only by the commit of a job that stores
\* its execution as COMPLETED, or as FAILED in the exception handler, and
\* that commit adds the rows the job has flushed.  When the worker is lost
\* inside the loop none of the rows of that attempt is stored then or later,
\* and the row is left as it was: RUNNING (or CANCELLED by a cancel request
\* that was committed meanwhile) with the total_tests committed before the
\* loop.
C30_ResultsVisibleOnlyAtCommit ==
    [][/\ dbResults' # dbResults
          => \E j \in JobIds :
               /\ dbResults' = dbResults \o job[j].pend
               /\ \/ job[j].pc = "summary" /\ dbExec'[job[j].eid].status = COMPLETED
                  \/ job[j].pc = "handler" /\ dbExec'[job[j].eid].status = FAILED
       /\ \A j \in JobIds :
            (InLoop(j) /\ job'[j].pc = "crashed")
            => LET e == job[j].eid IN
               /\ dbResults' = dbResults
               /\ job'[j].pend = <<>>
               /\ dbExec' = dbExec
               /\ dbExec[e].total = Len(job[j].cases)
               /\ \/ dbExec[e].status = RUNNING
                  \/ /\ dbExec[e].status = CANCELLED
                     /\ \E c \in CancelIds : /\ cjob[c].eid = e
                                             /\ cjob[c].pc \in {"uncache", "done"}
       /\ \A j \in JobIds : job[j].pc = "crashed" => job'[j] = job[j]]_vars

C30_Witness ==
    \E j \in JobIds :
      /\ job[j].pc = "crashed"
      /\ uow[job[j].eid] >= 1
      /\ dbResults = <<>>
      /\ dbExec[job[j].eid].status = RUNNING
      /\ dbExec[job[j].eid].total = 2
      /\ msg[job[j].eid] = "queued"

====
